---- MODULE Spec2Model ----
(***************************************************************************)
(* Model of the GEF reader of the CPT viewer (src/src/extension.ts):       *)
(* Cpt.fromString, Cpt.readGef, Cpt.parseHeaderLine, Cpt.parseDate,        *)
(* Cpt.parseDataLine and Cpt.postProcess.                                  *)
(*                                                                         *)
(* Strings are sequences of one-character strings, so that split, trim,    *)
(* replace, includes, parseInt, parseFloat and the date formatting are     *)
(* computed the way the JavaScript built-ins compute them.                 *)
(*                                                                         *)
(* A JavaScript number is a record [t, v, d]: t = "num" for a finite value *)
(* v/d, t = "NaN" for NaN, t = "undefined" for the value undefined (the    *)
(* result of reading a missing array element or object property).  Parsed  *)
(* numbers are fixed point with d = Scale (six decimals); only the         *)
(* friction ratio carries another denominator.  Floating point rounding    *)
(* error, exponents, hexadecimal literals and Infinity are not modelled;   *)
(* the input lines below contain none.                                     *)
(***************************************************************************)
EXTENDS Integers, Sequences, FiniteSets, TLC

\* ------------------------------------------------------------------
\* Bounds of the model
\* ------------------------------------------------------------------

\* The longest input (number of lines of data.split("\n")) that is explored.
MaxLines == 6

\* Fixed point resolution: one unit is 1e-6.
Scale == 1000000

\* ------------------------------------------------------------------
\* Program constants (extension.ts:5-10)
\* ------------------------------------------------------------------
GEF_COLUMN_Z == 1
GEF_COLUMN_QC == 2
GEF_COLUMN_FS == 3
GEF_COLUMN_U == 6
GEF_COLUMN_Z_CORRECTED == 11

\* ------------------------------------------------------------------
\* JavaScript numbers
\* ------------------------------------------------------------------
Num(v) == [t |-> "num", v |-> v, d |-> Scale]
Whole(n) == Num(n * Scale)
NaN == [t |-> "NaN", v |-> 0, d |-> 1]
Undefined == [t |-> "undefined", v |-> 0, d |-> 1]

\* CPT_FR_MAX = 10.0
CPT_FR_MAX == Whole(10)

\* The guards of parseDataLine: 1e-3 and 1e-6.
QC_GUARD == Num(1000)
FS_GUARD == Num(1)

\* isNaN(x): ToNumber(undefined) is NaN.
isNaN(x) == x.t # "num"

AbsInt(n) == IF n < 0 THEN -n ELSE n

\* Math.abs(x)
MathAbs(x) == IF x.t = "num" THEN [x EXCEPT !.v = AbsInt(x.v)] ELSE NaN

\* a - b on fixed point numbers
Minus(a, b) == IF a.t = "num" /\ b.t = "num" THEN Num(a.v - b.v) ELSE NaN

\* a < b, a > b, a <= b on fixed point numbers: false as soon as one side
\* is NaN or undefined
Lt(a, b) == a.t = "num" /\ b.t = "num" /\ a.v < b.v
Gt(a, b) == Lt(b, a)
Le(a, b) == a.t = "num" /\ b.t = "num" /\ a.v <= b.v

\* a === b on fixed point numbers and undefined: NaN equals nothing
StrictEq(a, b) ==
    \/ a.t = "undefined" /\ b.t = "undefined"
    \/ a.t = "num" /\ b.t = "num" /\ a.v = b.v

\* Boolean(x) of a number, as in x || y: 0, NaN and undefined are falsy
Truthy(x) == x.t = "num" /\ x.v # 0

\* (fs / qc) * 100.0, kept as the exact ratio
Ratio100(fs, qc) ==
    IF fs.t = "num" /\ qc.t = "num" /\ qc.v # 0
    THEN [t |-> "num", v |-> fs.v * 100, d |-> qc.v]
    ELSE NaN

\* parseFloat(x.toFixed(2)): rounding to two decimals, half away from zero;
\* NaN.toFixed(2) is "NaN", which parses to NaN.
Round2(x) ==
    IF x.t # "num" THEN NaN
    ELSE LET unit == Scale \div 100
             m == ((AbsInt(x.v) + unit \div 2) \div unit) * unit
         IN  Num(IF x.v < 0 THEN -m ELSE m)

\* arr[k] for a JavaScript array arr (0-based) and any index value k: a
\* missing element, a negative, NaN or undefined index reads undefined.
At(arr, k) ==
    IF k.t = "num" /\ k.v % Scale = 0 /\ k.v >= 0 /\ (k.v \div Scale) < Len(arr)
    THEN arr[(k.v \div Scale) + 1]
    ELSE Undefined

\* obj[key] for a plain object used as a map: a missing property reads
\* undefined.  Property names are the number's string form, one per value.
Get(obj, key) == IF key \in DOMAIN obj THEN obj[key] ELSE Undefined

\* obj[key] = val
Put(obj, key, val) ==
    [k \in (DOMAIN obj) \cup {key} |-> IF k = key THEN val ELSE obj[k]]

\* {}
EmptyObject == [k \in {} |-> Undefined]

\* ------------------------------------------------------------------
\* JavaScript strings
\* ------------------------------------------------------------------
WhiteSpace == {" ", "\t", "\r"}
Digits == <<"0", "1", "2", "3", "4", "5", "6", "7", "8", "9">>
DigitSet == {Digits[i] : i \in 1..10}
DigitVal(c) == (CHOOSE i \in 1..10 : Digits[i] = c) - 1

Lower == <<"a","b","c","d","e","f","g","h","i","j","k","l","m",
           "n","o","p","q","r","s","t","u","v","w","x","y","z">>
Upper == <<"A","B","C","D","E","F","G","H","I","J","K","L","M",
           "N","O","P","Q","R","S","T","U","V","W","X","Y","Z">>

UpperChar(c) ==
    IF \E i \in 1..26 : Lower[i] = c
    THEN Upper[CHOOSE i \in 1..26 : Lower[i] = c] ELSE c
LowerChar(c) ==
    IF \E i \in 1..26 : Upper[i] = c
    THEN Lower[CHOOSE i \in 1..26 : Upper[i] = c] ELSE c

\* s.toUpperCase(), s.toLowerCase()
toUpperCase(s) == [i \in 1..Len(s) |-> UpperChar(s[i])]
toLowerCase(s) == [i \in 1..Len(s) |-> LowerChar(s[i])]

Drop(s, n) == SubSeq(s, n + 1, Len(s))

RECURSIVE TrimStart(_)
TrimStart(s) ==
    IF s # <<>> /\ s[1] \in WhiteSpace THEN TrimStart(Tail(s)) ELSE s

RECURSIVE TrimEnd(_)
TrimEnd(s) ==
    IF s # <<>> /\ s[Len(s)] \in WhiteSpace
    THEN TrimEnd(SubSeq(s, 1, Len(s) - 1)) ELSE s

\* s.trim()
trim(s) == TrimEnd(TrimStart(s))

\* s.indexOf(p) + 1: the first position at which p occurs in s, 0 if none
IndexOf(s, p) ==
    LET hits == {i \in 1..(Len(s) - Len(p) + 1) : SubSeq(s, i, i + Len(p) - 1) = p}
    IN  IF hits = {} THEN 0 ELSE CHOOSE i \in hits : \A j \in hits : i <= j

\* s.includes(p)
includes(s, p) == IndexOf(s, p) # 0

\* s.replace(p, r) with a string pattern: the first occurrence only
replace(s, p, r) ==
    LET i == IndexOf(s, p)
    IN  IF i = 0 THEN s
        ELSE SubSeq(s, 1, i - 1) \o r \o Drop(s, i - 1 + Len(p))

\* s.split(sep) with a string separator; an empty separator splits into
\* the characters
RECURSIVE SplitOn(_, _)
SplitOn(s, sep) ==
    LET i == IndexOf(s, sep)
    IN  IF i = 0 THEN <<s>>
        ELSE <<SubSeq(s, 1, i - 1)>> \o SplitOn(Drop(s, i - 1 + Len(sep)), sep)

split(s, sep) ==
    IF sep = <<>> THEN [i \in 1..Len(s) |-> <<s[i]>>] ELSE SplitOn(s, sep)

\* The longest prefix of s made of decimal digits
RECURSIVE DigitPrefix(_)
DigitPrefix(s) ==
    IF s # <<>> /\ s[1] \in DigitSet THEN <<s[1]>> \o DigitPrefix(Tail(s)) ELSE <<>>

\* The value of a digit string
RECURSIVE DigitsValue(_)
DigitsValue(ds) ==
    IF ds = <<>> THEN 0
    ELSE 10 * DigitsValue(SubSeq(ds, 1, Len(ds) - 1)) + DigitVal(ds[Len(ds)])

\* The value, in units of 1/Scale, of the fraction digits fs (six are kept)
RECURSIVE FractionValue(_, _)
FractionValue(ds, unit) ==
    IF ds = <<>> \/ unit = 0 THEN 0
    ELSE DigitVal(ds[1]) * unit + FractionValue(Tail(ds), unit \div 10)

Unsigned(s) == IF s # <<>> /\ s[1] \in {"+", "-"} THEN Tail(s) ELSE s
Sign(s) == IF s # <<>> /\ s[1] = "-" THEN -1 ELSE 1

\* parseInt(s): leading white space, a sign, then decimal digits up to the
\* first character that is not one; NaN when there is no digit.
parseInt(s) ==
    LET t == TrimStart(s)
        ds == DigitPrefix(Unsigned(t))
    IN  IF ds = <<>> THEN NaN ELSE Whole(Sign(t) * DigitsValue(ds))

\* parseFloat(s): leading white space, a sign, digits, and a fraction; what
\* follows the longest such prefix is ignored; NaN when it has no digit.
parseFloat(s) ==
    LET t == TrimStart(s)
        u == Unsigned(t)
        ip == DigitPrefix(u)
        rest == Drop(u, Len(ip))
        fp == IF rest # <<>> /\ rest[1] = "." THEN DigitPrefix(Tail(rest)) ELSE <<>>
    IN  IF ip = <<>> /\ fp = <<>> THEN NaN
        ELSE Num(Sign(t) * (DigitsValue(ip) * Scale + FractionValue(fp, Scale \div 10)))

\* The decimal digits of a natural number
RECURSIVE NatToString(_)
NatToString(n) ==
    IF n < 10 THEN <<Digits[n + 1]>>
    ELSE NatToString(n \div 10) \o <<Digits[(n % 10) + 1]>>

\* String(x) / `${x}` for the value of a parseInt: an integer or NaN
String(x) ==
    IF x.t # "num" THEN <<"N", "a", "N">>
    ELSE IF x.v < 0 THEN <<"-">> \o NatToString((-x.v) \div Scale)
    ELSE NatToString(x.v \div Scale)

\* s.padStart(2, '0')
padStart2(s) == IF Len(s) = 0 THEN <<"0", "0">> ELSE IF Len(s) = 1 THEN <<"0">> \o s ELSE s

Last(s) == s[Len(s)]

\* ------------------------------------------------------------------
\* State
\* ------------------------------------------------------------------
VARIABLES
    pc,             \* "start", "scan" (the loop of readGef), "returned", "thrown"
    err,            \* what fromString threw: [where, cause]
    readingHeader,  \* readGef's local
    metadata,       \* readGef's local: separators, columnVoids, columnInfo
    cpt,            \* the Cpt object under construction
    n,              \* lines of data.split("\n") handled so far
    line,           \* the line handled last
    handled,        \* how it was handled: "header", "marker", "blank", "void", "row"
    tally,          \* observed: non-blank data lines, void-dropped rows, NaN-depth rows
    voidDecls       \* observed: the COLUMNVOID declarations stored so far, in order

vars == <<pc, err, readingHeader, metadata, cpt, n, line, handled, tally, voidDecls>>

NoError == [where |-> "", cause |-> ""]

\* new Cpt(): the field initialisers
NewCpt ==
    [x |-> Num(0), y |-> Num(0), top |-> Num(0), bottom |-> Num(0),
     z |-> <<>>, qc |-> <<>>, fs |-> <<>>, u |-> <<>>, fr |-> <<>>,
     name |-> <<>>, filedate |-> <<>>, startdate |-> <<>>,
     preExcavatedDepth |-> Num(0)]

\* The metadata literal of readGef
NewMetadata ==
    [recordSeparator |-> <<>>, columnSeparator |-> <<" ">>,
     columnVoids |-> EmptyObject, columnInfo |-> EmptyObject]

Init ==
    /\ pc = "start"
    /\ err = NoError
    /\ readingHeader = TRUE
    /\ metadata = NewMetadata
    /\ cpt = NewCpt
    /\ n = 0
    /\ line = <<>>
    /\ handled = "none"
    /\ tally = [nonBlank |-> 0, voided |-> 0, nanDepth |-> 0]
    /\ voidDecls = <<>>

\* ------------------------------------------------------------------
\* String literals of the program
\* ------------------------------------------------------------------
PROCEDURECODE ==
    <<"P", "R", "O", "C", "E", "D", "U", "R", "E", "C", "O", "D", "E">>
REPORTCODE ==
    <<"R", "E", "P", "O", "R", "T", "C", "O", "D", "E">>
RECORDSEPARATOR ==
    <<"R", "E", "C", "O", "R", "D", "S", "E", "P", "A", "R", "A", "T", "O", "R">>
COLUMNSEPARATOR ==
    <<"C", "O", "L", "U", "M", "N", "S", "E", "P", "A", "R", "A", "T", "O", "R">>
COLUMNINFO ==
    <<"C", "O", "L", "U", "M", "N", "I", "N", "F", "O">>
XYID ==
    <<"X", "Y", "I", "D">>
ZID ==
    <<"Z", "I", "D">>
MEASUREMENTVAR ==
    <<"M", "E", "A", "S", "U", "R", "E", "M", "E", "N", "T", "V", "A", "R">>
COLUMNVOID ==
    <<"C", "O", "L", "U", "M", "N", "V", "O", "I", "D">>
TESTID ==
    <<"T", "E", "S", "T", "I", "D">>
FILEDATE ==
    <<"F", "I", "L", "E", "D", "A", "T", "E">>
STARTDATE ==
    <<"S", "T", "A", "R", "T", "D", "A", "T", "E">>
EOH == <<"#", "E", "O", "H">>
BORE == <<"B", "O", "R", "E">>
THIRTEEN == <<"1", "3">>
DOT_XML == <<".", "x", "m", "l">>
DOT_GEF == <<".", "g", "e", "f">>

\* ------------------------------------------------------------------
\* Cpt.parseDate (extension.ts:202-216)
\* ------------------------------------------------------------------

\* The range test of line 208; a comparison with NaN is false
DateOutOfRange(yyyy, mm, dd) ==
    \/ Lt(yyyy, Whole(1900)) \/ Gt(yyyy, Whole(2100))
    \/ Lt(mm, Whole(1)) \/ Gt(mm, Whole(12))
    \/ Lt(dd, Whole(1)) \/ Gt(dd, Whole(31))

\* params[1].trim() or params[2].trim() of a missing parameter throws a
\* TypeError, the range test throws an Error: both are caught and give "".
parseDate(params) ==
    IF Len(params) < 3 THEN <<>>
    ELSE LET yyyy == parseInt(trim(params[1]))
             mm == parseInt(trim(params[2]))
             dd == parseInt(trim(params[3]))
         IN  IF DateOutOfRange(yyyy, mm, dd) THEN <<>>
             ELSE String(yyyy) \o padStart2(String(mm)) \o padStart2(String(dd))

\* ------------------------------------------------------------------
\* Cpt.parseHeaderLine (extension.ts:144-200)
\* ------------------------------------------------------------------

\* The outcome of a handler: the object and the metadata as it leaves them,
\* and what it threw ("" when it returned).
Ok(c, m) == [cpt |-> c, metadata |-> m, cause |-> ""]
Threw(c, m, cause) == [cpt |-> c, metadata |-> m, cause |-> cause]

\* line 146-147: args[0].trim().replace("#", "")
KeywordOf(l) == replace(trim(split(l, <<"=">>)[1]), <<"#">>, <<>>)

\* line 148-149: args[1].trim().split(","); only read when args[1] exists
ParamsOf(l) == split(trim(split(l, <<"=">>)[2]), <<",">>)

\* A variant of IsBorehole that forgets toUpperCase
IsBoreholeCaseSensitive(params) == includes(params[1], BORE)

\* line 154: params[0].toUpperCase().includes("BORE")
IsBorehole(params) == includes(toUpperCase(params[1]), BORE)

\* lines 165-168
ColumnInfo(c, m, params) ==
    IF Len(params) < 4 THEN Threw(c, m, "TypeError")
    ELSE LET column == parseInt(params[1])
             parsed == parseInt(trim(params[4]))
             dtype == IF StrictEq(parsed, Whole(GEF_COLUMN_Z_CORRECTED))
                      THEN Whole(GEF_COLUMN_Z) ELSE parsed
         IN  Ok(c, [m EXCEPT !.columnInfo = Put(@, dtype, Minus(column, Whole(1)))])

\* lines 171-172: this.x is assigned before params[2] is read
XyId(c, m, params) ==
    IF Len(params) < 2 THEN Threw(c, m, "TypeError")
    ELSE LET cx == [c EXCEPT !.x = Round2(parseFloat(trim(params[2])))]
         IN  IF Len(params) < 3 THEN Threw(cx, m, "TypeError")
             ELSE Ok([cx EXCEPT !.y = Round2(parseFloat(trim(params[3])))], m)

\* line 175
ZId(c, m, params) ==
    IF Len(params) < 2 THEN Threw(c, m, "TypeError")
    ELSE Ok([c EXCEPT !.top = parseFloat(trim(params[2]))], m)

\* lines 178-180
MeasurementVar(c, m, params) ==
    IF params[1] # THIRTEEN THEN Ok(c, m)
    ELSE IF Len(params) < 2 THEN Threw(c, m, "TypeError")
    ELSE Ok([c EXCEPT !.preExcavatedDepth = parseFloat(trim(params[2]))], m)

\* line 183
ColumnVoid(c, m, params) ==
    IF Len(params) < 2 THEN Threw(c, m, "TypeError")
    ELSE Ok(c, [m EXCEPT !.columnVoids =
                   Put(@, Minus(parseInt(trim(params[1])), Whole(1)),
                       parseFloat(trim(params[2])))])

\* The COLUMNVOID declaration a header line makes, as written: its 1-based
\* column and its sentinel (line 183)
VoidDeclOf(l) ==
    IF Len(split(l, <<"=">>)) >= 2 /\ KeywordOf(l) = COLUMNVOID /\ Len(ParamsOf(l)) >= 2
    THEN <<[column |-> parseInt(trim(ParamsOf(l)[1])),
            sentinel |-> parseFloat(trim(ParamsOf(l)[2]))]>>
    ELSE <<>>

\* args[1].trim() of a line without "=" throws a TypeError (line 148)
parseHeaderLine(l, c, m) ==
    IF Len(split(l, <<"=">>)) < 2 THEN Threw(c, m, "TypeError")
    ELSE LET keyword == KeywordOf(l)
             params == ParamsOf(l)
         IN  CASE keyword \in {PROCEDURECODE, REPORTCODE} ->
                    IF IsBorehole(params) THEN Threw(c, m, "borehole") ELSE Ok(c, m)
               [] keyword = RECORDSEPARATOR ->
                    Ok(c, [m EXCEPT !.recordSeparator = params[1]])
               [] keyword = COLUMNSEPARATOR ->
                    Ok(c, [m EXCEPT !.columnSeparator = params[1]])
               [] keyword = COLUMNINFO -> ColumnInfo(c, m, params)
               [] keyword = XYID -> XyId(c, m, params)
               [] keyword = ZID -> ZId(c, m, params)
               [] keyword = MEASUREMENTVAR -> MeasurementVar(c, m, params)
               [] keyword = COLUMNVOID -> ColumnVoid(c, m, params)
               [] keyword = TESTID -> Ok([c EXCEPT !.name = trim(params[1])], m)
               [] keyword = FILEDATE -> Ok([c EXCEPT !.filedate = parseDate(params)], m)
               [] keyword = STARTDATE -> Ok([c EXCEPT !.startdate = parseDate(params)], m)
               [] OTHER -> Ok(c, m)

\* ------------------------------------------------------------------
\* Cpt.parseDataLine (extension.ts:218-256)
\* ------------------------------------------------------------------

\* lines 221-226: the row's numbers
RowArgs(l, m) ==
    LET tokens == split(trim(replace(l, m.recordSeparator, <<>>)), m.columnSeparator)
        kept == SelectSeq(tokens, LAMBDA arg : Len(trim(arg)) > 0)
    IN  [i \in 1..Len(kept) |-> parseFloat(trim(kept[i]))]

\* A variant of IsVoidRow that reads the stored 0-based column as 1-based
IsVoidRowOffByOne(args, m) ==
    \E colIndex \in DOMAIN m.columnVoids :
        StrictEq(At(args, Minus(colIndex, Whole(1))), m.columnVoids[colIndex])

\* lines 228-230: some registered void column holds its sentinel.  The
\* property name of a column is parsed back to the column's number.
IsVoidRow(args, m) ==
    \E colIndex \in DOMAIN m.columnVoids :
        StrictEq(At(args, colIndex), m.columnVoids[colIndex])

\* line 235: metadata.columnInfo[GEF_COLUMN_U] || -1
UColumn(m) ==
    LET declared == Get(m.columnInfo, Whole(GEF_COLUMN_U))
    IN  IF Truthy(declared) THEN declared ELSE Whole(-1)

\* lines 237-252: what one row appends to z, qc, fs and u
RowValues(args, c, m) ==
    LET zColumn == Get(m.columnInfo, Whole(GEF_COLUMN_Z))
        qcColumn == Get(m.columnInfo, Whole(GEF_COLUMN_QC))
        fsColumn == Get(m.columnInfo, Whole(GEF_COLUMN_FS))
        uColumn == UColumn(m)
        qc == At(args, qcColumn)
        fs == At(args, fsColumn)
    IN  [z |-> Minus(c.top, MathAbs(At(args, zColumn))),
         qc |-> IF Le(qc, Num(0)) THEN QC_GUARD ELSE qc,
         fs |-> IF Le(fs, Num(0)) THEN FS_GUARD ELSE fs,
         u |-> IF Gt(uColumn, Whole(-1)) THEN At(args, uColumn) ELSE Num(0)]

\* Nothing in the body throws: reading a missing element or property gives
\* undefined, and arithmetic on it gives NaN.  The outcome is "blank"
\* (line 220), "void" (line 229) or "row".
parseDataLine(l, c, m) ==
    IF Len(trim(l)) = 0 THEN [cpt |-> c, outcome |-> "blank"]
    ELSE LET args == RowArgs(l, m)
         IN  IF IsVoidRow(args, m) THEN [cpt |-> c, outcome |-> "void"]
             ELSE LET r == RowValues(args, c, m)
                  IN  [cpt |-> [c EXCEPT !.z = Append(@, r.z),
                                         !.qc = Append(@, r.qc),
                                         !.fs = Append(@, r.fs),
                                         !.u = Append(@, r.u)],
                       outcome |-> "row"]

\* ------------------------------------------------------------------
\* Cpt.postProcess (extension.ts:102-142)
\* ------------------------------------------------------------------

\* lines 103-112
FrictionRatio(qc, fs) ==
    [i \in 1..Len(qc) |->
        IF StrictEq(qc[i], Num(0)) THEN CPT_FR_MAX ELSE Ratio100(At(fs, Whole(i - 1)), qc[i])]

\* A variant of Surviving without the continue of line 121
SurvivingAll(z, vals) ==
    [i \in 1..Len(z) |->
        IF isNaN(At(vals, Whole(i - 1))) THEN Num(0) ELSE At(vals, Whole(i - 1))]

\* lines 115-132: the values of the rows whose z is a number, NaN and
\* undefined replaced by 0
RECURSIVE Surviving(_, _)
Surviving(z, vals) ==
    IF z = <<>> THEN <<>>
    ELSE LET v == At(vals, Whole(0))
             rest == Surviving(Tail(z), IF vals = <<>> THEN <<>> ELSE Tail(vals))
         IN  IF isNaN(z[1]) THEN rest
             ELSE <<IF isNaN(v) THEN Num(0) ELSE v>> \o rest

\* lines 103-140: the object after the lists are reassigned and top is rounded
Filtered(c) ==
    LET fr == FrictionRatio(c.qc, c.fs)
    IN  [c EXCEPT !.z = Surviving(c.z, c.z),
                  !.qc = Surviving(c.z, c.qc),
                  !.fs = Surviving(c.z, c.fs),
                  !.fr = Surviving(c.z, fr),
                  !.u = Surviving(c.z, c.u),
                  !.top = Round2(c.top)]

\* A variant of postProcess that leaves bottom alone when no row is left
postProcessGuarded(c) ==
    LET f == Filtered(c)
    IN  [cpt |-> IF f.z = <<>> THEN f ELSE [f EXCEPT !.bottom = Round2(Last(f.z))],
         cause |-> ""]

\* line 141: z[z.length - 1].toFixed(2) throws a TypeError on an empty z
postProcess(c) ==
    LET f == Filtered(c)
    IN  IF f.z = <<>> THEN [cpt |-> f, cause |-> "TypeError"]
        ELSE [cpt |-> [f EXCEPT !.bottom = Round2(Last(f.z))], cause |-> ""]

\* ------------------------------------------------------------------
\* Cpt.fromString and the loop of Cpt.readGef (extension.ts:35-82)
\* ------------------------------------------------------------------

\* A variant of HandleAs that looks for the marker before the mode
HandleAsMarkerFirst(rh, l) ==
    IF includes(l, EOH) THEN "marker" ELSE IF rh THEN "header" ELSE "data"

\* lines 71-79: how the loop handles a line
HandleAs(rh, l) ==
    IF rh THEN (IF includes(l, EOH) THEN "marker" ELSE "header") ELSE "data"

\* fromString up to the call of readGef (lines 36-54)
FromString(suffix) ==
    /\ pc = "start"
    /\ LET lower == toLowerCase(suffix)
       IN  IF lower = DOT_XML
           THEN pc' = "thrown" /\ err' = [where |-> "readXml", cause |-> "not implemented"]
           ELSE IF lower = DOT_GEF
           THEN pc' = "scan" /\ err' = err
           ELSE pc' = "thrown" /\ err' = [where |-> "fromString", cause |-> "unsupported"]
    /\ UNCHANGED <<readingHeader, metadata, cpt, n, line, handled, tally, voidDecls>>

\* One iteration of the loop on a header record (line 75); an exception
\* leaves readGef and is rethrown by fromString (lines 49-51).
ParseHeaderLine(l) ==
    /\ pc = "scan" /\ n < MaxLines
    /\ HandleAs(readingHeader, l) = "header"
    /\ LET r == parseHeaderLine(l, cpt, metadata)
       IN  /\ cpt' = r.cpt
           /\ metadata' = r.metadata
           /\ voidDecls' = voidDecls \o VoidDeclOf(l)
           /\ IF r.cause = ""
              THEN pc' = pc /\ err' = err
              ELSE pc' = "thrown" /\ err' = [where |-> "parseHeaderLine", cause |-> r.cause]
    /\ n' = n + 1
    /\ line' = l
    /\ handled' = "header"
    /\ UNCHANGED <<readingHeader, tally>>

\* One iteration of the loop on the first line that holds the marker (line 73)
EndOfHeader(l) ==
    /\ pc = "scan" /\ n < MaxLines
    /\ HandleAs(readingHeader, l) = "marker"
    /\ readingHeader' = FALSE
    /\ n' = n + 1
    /\ line' = l
    /\ handled' = "marker"
    /\ UNCHANGED <<pc, err, metadata, cpt, tally, voidDecls>>

\* One iteration of the loop on a line after the marker (line 78)
ParseDataLine(l) ==
    /\ pc = "scan" /\ n < MaxLines
    /\ HandleAs(readingHeader, l) = "data"
    /\ LET r == parseDataLine(l, cpt, metadata)
       IN  /\ cpt' = r.cpt
           /\ handled' = r.outcome
           /\ tally' = [nonBlank |-> tally.nonBlank + (IF r.outcome = "blank" THEN 0 ELSE 1),
                        voided |-> tally.voided + (IF r.outcome = "void" THEN 1 ELSE 0),
                        nanDepth |-> tally.nanDepth +
                            (IF r.outcome = "row" /\ isNaN(Last(r.cpt.z)) THEN 1 ELSE 0)]
    /\ n' = n + 1
    /\ line' = l
    /\ UNCHANGED <<pc, err, readingHeader, metadata, voidDecls>>

\* The end of the loop: postProcess (line 81), then fromString returns the
\* object (line 48) or rethrows (line 50).  data.split("\n") has at least
\* one element, so at least one line was handled.
PostProcess ==
    /\ pc = "scan" /\ n >= 1
    /\ LET r == postProcess(cpt)
       IN  /\ cpt' = r.cpt
           /\ IF r.cause = ""
              THEN pc' = "returned" /\ err' = err
              ELSE pc' = "thrown" /\ err' = [where |-> "postProcess", cause |-> r.cause]
    /\ UNCHANGED <<readingHeader, metadata, n, line, handled, tally, voidDecls>>

\* ------------------------------------------------------------------
\* Input: file suffixes and the lines of GEF files
\* ------------------------------------------------------------------
Suffixes ==
    {<<".", "g", "e", "f">>,
     <<".", "G", "E", "F">>,
     <<".", "x", "m", "l">>,
     <<".", "t", "x", "t">>}

\* #COLUMNINFO= 1, m, depth, 1
L_ColumnInfoZ ==
    <<"#", "C", "O", "L", "U", "M", "N", "I", "N", "F", "O", "=", " ", "1", ",", " ", "m", ",", " ", "d", "e", "p", "t", "h", ",", " ", "1">>
\* #COLUMNINFO= 2, MPa, qc, 2
L_ColumnInfoQc ==
    <<"#", "C", "O", "L", "U", "M", "N", "I", "N", "F", "O", "=", " ", "2", ",", " ", "M", "P", "a", ",", " ", "q", "c", ",", " ", "2">>
\* #COLUMNINFO= 3, MPa, fs, 3
L_ColumnInfoFs ==
    <<"#", "C", "O", "L", "U", "M", "N", "I", "N", "F", "O", "=", " ", "3", ",", " ", "M", "P", "a", ",", " ", "f", "s", ",", " ", "3">>
\* #COLUMNINFO= 1, MPa, u, 6
L_ColumnInfoU1 ==
    <<"#", "C", "O", "L", "U", "M", "N", "I", "N", "F", "O", "=", " ", "1", ",", " ", "M", "P", "a", ",", " ", "u", ",", " ", "6">>
\* #COLUMNINFO= 3, MPa, u, 6
L_ColumnInfoU3 ==
    <<"#", "C", "O", "L", "U", "M", "N", "I", "N", "F", "O", "=", " ", "3", ",", " ", "M", "P", "a", ",", " ", "u", ",", " ", "6">>
\* #COLUMNINFO= x, m, depth, 1
L_ColumnInfoText ==
    <<"#", "C", "O", "L", "U", "M", "N", "I", "N", "F", "O", "=", " ", "x", ",", " ", "m", ",", " ", "d", "e", "p", "t", "h", ",", " ", "1">>
\* #COLUMNINFO= 1, m
L_ColumnInfoShort ==
    <<"#", "C", "O", "L", "U", "M", "N", "I", "N", "F", "O", "=", " ", "1", ",", " ", "m">>
\* #COLUMNVOID= 2, -99
L_ColumnVoid2 ==
    <<"#", "C", "O", "L", "U", "M", "N", "V", "O", "I", "D", "=", " ", "2", ",", " ", "-", "9", "9">>
\* #COLUMNVOID= 2, 0.5
L_ColumnVoid2b ==
    <<"#", "C", "O", "L", "U", "M", "N", "V", "O", "I", "D", "=", " ", "2", ",", " ", "0", ".", "5">>
\* #COLUMNVOID= 1, 2.5
L_ColumnVoid1 ==
    <<"#", "C", "O", "L", "U", "M", "N", "V", "O", "I", "D", "=", " ", "1", ",", " ", "2", ".", "5">>
\* #COLUMNVOID= 3, none
L_ColumnVoidText ==
    <<"#", "C", "O", "L", "U", "M", "N", "V", "O", "I", "D", "=", " ", "3", ",", " ", "n", "o", "n", "e">>
\* #COLUMNVOID= 3
L_ColumnVoidShort ==
    <<"#", "C", "O", "L", "U", "M", "N", "V", "O", "I", "D", "=", " ", "3">>
\* #ZID= 1, 5.004
L_Zid ==
    <<"#", "Z", "I", "D", "=", " ", "1", ",", " ", "5", ".", "0", "0", "4">>
\* #ZID= 1, NAP
L_ZidText ==
    <<"#", "Z", "I", "D", "=", " ", "1", ",", " ", "N", "A", "P">>
\* #XYID= 1, 1.234, 5.678
L_Xyid ==
    <<"#", "X", "Y", "I", "D", "=", " ", "1", ",", " ", "1", ".", "2", "3", "4", ",", " ", "5", ".", "6", "7", "8">>
\* #XYID= 1, 1.234
L_XyidShort ==
    <<"#", "X", "Y", "I", "D", "=", " ", "1", ",", " ", "1", ".", "2", "3", "4">>
\* #MEASUREMENTVAR= 13, 1.5, m
L_MeasurementVar13 ==
    <<"#", "M", "E", "A", "S", "U", "R", "E", "M", "E", "N", "T", "V", "A", "R", "=", " ", "1", "3", ",", " ", "1", ".", "5", ",", " ", "m">>
\* #TESTID= CPT-01
L_TestId ==
    <<"#", "T", "E", "S", "T", "I", "D", "=", " ", "C", "P", "T", "-", "0", "1">>
\* #STARTDATE= 2023, 5, 7
L_StartDate ==
    <<"#", "S", "T", "A", "R", "T", "D", "A", "T", "E", "=", " ", "2", "0", "2", "3", ",", " ", "5", ",", " ", "7">>
\* #STARTDATE= 1899, 5, 7
L_StartDateOld ==
    <<"#", "S", "T", "A", "R", "T", "D", "A", "T", "E", "=", " ", "1", "8", "9", "9", ",", " ", "5", ",", " ", "7">>
\* #STARTDATE= abc, 5, 7
L_StartDateText ==
    <<"#", "S", "T", "A", "R", "T", "D", "A", "T", "E", "=", " ", "a", "b", "c", ",", " ", "5", ",", " ", "7">>
\* #FILEDATE= 2100, 12, 31
L_FileDate ==
    <<"#", "F", "I", "L", "E", "D", "A", "T", "E", "=", " ", "2", "1", "0", "0", ",", " ", "1", "2", ",", " ", "3", "1">>
\* #FILEDATE= 2023, 5
L_FileDateShort ==
    <<"#", "F", "I", "L", "E", "D", "A", "T", "E", "=", " ", "2", "0", "2", "3", ",", " ", "5">>
\* #FILEDATE= 2023, 13, 7
L_FileDateMonth ==
    <<"#", "F", "I", "L", "E", "D", "A", "T", "E", "=", " ", "2", "0", "2", "3", ",", " ", "1", "3", ",", " ", "7">>
\* #PROCEDURECODE= SIKB0101_BOREHOLE
L_ProcedureBore ==
    <<"#", "P", "R", "O", "C", "E", "D", "U", "R", "E", "C", "O", "D", "E", "=", " ", "S", "I", "K", "B", "0", "1", "0", "1", "_", "B", "O", "R", "E", "H", "O", "L", "E">>
\* #REPORTCODE= gef-bore-report, 1, 0, 0
L_ReportBoreLower ==
    <<"#", "R", "E", "P", "O", "R", "T", "C", "O", "D", "E", "=", " ", "g", "e", "f", "-", "b", "o", "r", "e", "-", "r", "e", "p", "o", "r", "t", ",", " ", "1", ",", " ", "0", ",", " ", "0">>
\* #PROCEDURECODE= GEF-CPT-Report, 1, 1, 0
L_ProcedureCpt ==
    <<"#", "P", "R", "O", "C", "E", "D", "U", "R", "E", "C", "O", "D", "E", "=", " ", "G", "E", "F", "-", "C", "P", "T", "-", "R", "e", "p", "o", "r", "t", ",", " ", "1", ",", " ", "1", ",", " ", "0">>
\* #RECORDSEPARATOR= !
L_RecordSeparator ==
    <<"#", "R", "E", "C", "O", "R", "D", "S", "E", "P", "A", "R", "A", "T", "O", "R", "=", " ", "!">>
\* #COLUMNSEPARATOR= ;
L_ColumnSeparator ==
    <<"#", "C", "O", "L", "U", "M", "N", "S", "E", "P", "A", "R", "A", "T", "O", "R", "=", " ", ";">>
\* GEF file
L_NoEquals ==
    <<"G", "E", "F", " ", "f", "i", "l", "e">>
\* #GEFID= 1, 1, 0
L_Unknown ==
    <<"#", "G", "E", "F", "I", "D", "=", " ", "1", ",", " ", "1", ",", " ", "0">>
\* #EOH=
L_Eoh ==
    <<"#", "E", "O", "H", "=">>
\* 1.0 2.0 0.5
L_Row ==
    <<"1", ".", "0", " ", "2", ".", "0", " ", "0", ".", "5">>
\* 1.5 -99 0.5
L_RowVoid ==
    <<"1", ".", "5", " ", "-", "9", "9", " ", "0", ".", "5">>
\* x 2.0 0.5
L_RowNoDepth ==
    <<"x", " ", "2", ".", "0", " ", "0", ".", "5">>
\* 2.5
L_RowShort ==
    <<"2", ".", "5">>
\* 3.0 0 -1
L_RowZero ==
    <<"3", ".", "0", " ", "0", " ", "-", "1">>
\* 1.0;2.0;0.5;!
L_RowSemi ==
    <<"1", ".", "0", ";", "2", ".", "0", ";", "0", ".", "5", ";", "!">>
\*  
L_Blank ==
    <<" ">>

\* Files of data rows under a few column declarations
InputLines ==
    {L_ColumnInfoZ, L_ColumnInfoQc, L_ColumnInfoFs, L_ColumnInfoU1, L_ColumnInfoU3,
     L_ColumnVoid2, L_Eoh, L_Row, L_RowVoid, L_RowNoDepth, L_RowShort, L_RowZero, L_Blank}

\* Files whose headers hold well-formed and malformed records
HeaderLines ==
    {L_ColumnInfoZ, L_ColumnInfoText, L_ColumnInfoShort, L_ColumnVoidText,
     L_ColumnVoidShort, L_ZidText, L_Xyid, L_XyidShort, L_MeasurementVar13,
     L_StartDate, L_StartDateOld, L_StartDateText, L_FileDate, L_FileDateShort,
     L_FileDateMonth, L_ProcedureBore, L_ReportBoreLower, L_ProcedureCpt,
     L_NoEquals, L_Unknown, L_Blank, L_Eoh, L_Row}

\* Files with void sentinels, one column declared twice
VoidLines ==
    {L_ColumnInfoZ, L_ColumnInfoQc, L_ColumnVoid2, L_ColumnVoid2b, L_ColumnVoid1,
     L_ColumnVoidText, L_Eoh, L_Row, L_RowVoid, L_RowShort, L_RowZero, L_Blank}

\* Files whose data section holds keyword records and the marker again
ScanLines ==
    {L_ColumnInfoZ, L_ColumnVoid2, L_Zid, L_Xyid, L_MeasurementVar13, L_TestId,
     L_StartDate, L_FileDate, L_RecordSeparator, L_ColumnSeparator, L_Eoh,
     L_Row, L_RowSemi, L_RowVoid}

\* ------------------------------------------------------------------
\* Specifications
\* ------------------------------------------------------------------
NextOver(L) ==
    \/ \E suffix \in Suffixes : FromString(suffix)
    \/ \E l \in L : ParseHeaderLine(l)
    \/ \E l \in L : EndOfHeader(l)
    \/ \E l \in L : ParseDataLine(l)
    \/ PostProcess

Next == NextOver(InputLines)
Spec == Init /\ [][Next]_vars

NextHeader == NextOver(HeaderLines)
SpecHeader == Init /\ [][NextHeader]_vars

NextVoid == NextOver(VoidLines)
SpecVoid == Init /\ [][NextVoid]_vars

NextScan == NextOver(ScanLines)
SpecScan == Init /\ [][NextScan]_vars

\* ------------------------------------------------------------------
\* Properties
\* ------------------------------------------------------------------

\* The row of the line handled last, as parseDataLine read it
LastArgs == RowArgs(line, metadata)

\* The column a semantic id is mapped to (undefined when never declared)
ColumnOf(id) == Get(metadata.columnInfo, Whole(id))

\* C1: in every profile fromString returns, each qc[i] and fs[i] is
\* greater than 0.
C1_PositiveResistanceAndFriction ==
    pc = "returned" =>
        /\ \A i \in 1..Len(cpt.qc) : Gt(cpt.qc[i], Num(0))
        /\ \A i \in 1..Len(cpt.fs) : Gt(cpt.fs[i], Num(0))

\* A row lacks a required column: the depth, cone resistance or sleeve
\* friction column was never declared, lies beyond the row's tokens, or
\* holds a token that is not a number.
LacksRequiredColumn ==
    \E id \in {GEF_COLUMN_Z, GEF_COLUMN_QC, GEF_COLUMN_FS} :
        At(LastArgs, ColumnOf(id)).t # "num"

\* C2: a data row that is not dropped by a void match and lacks a required
\* column makes the parse fail with a data-line error; it is not accepted.
C2_MissingColumnFails ==
    (handled = "row" /\ LacksRequiredColumn) =>
        (pc = "thrown" /\ err.where = "parseDataLine")

\* The i-th parameter (from 0) of a header record is missing or not a number
NotNumeric(l, i) ==
    Len(ParamsOf(l)) <= i \/ isNaN(parseFloat(trim(ParamsOf(l)[i + 1])))

\* A malformed header line: no "=", or a recognised keyword with a numeric
\* parameter that is missing or not a number.
MalformedHeader(l) ==
    \/ Len(split(l, <<"=">>)) < 2
    \/ /\ Len(split(l, <<"=">>)) >= 2
       /\ \/ KeywordOf(l) = COLUMNINFO /\ (NotNumeric(l, 0) \/ NotNumeric(l, 3))
          \/ KeywordOf(l) = XYID /\ (NotNumeric(l, 1) \/ NotNumeric(l, 2))
          \/ KeywordOf(l) = ZID /\ NotNumeric(l, 1)
          \/ KeywordOf(l) = MEASUREMENTVAR /\ ParamsOf(l)[1] = THIRTEEN /\ NotNumeric(l, 1)
          \/ KeywordOf(l) = COLUMNVOID /\ (NotNumeric(l, 0) \/ NotNumeric(l, 1))

\* C3: every malformed header line makes the parse fail with a header
\* error.
C3_MalformedHeaderFails ==
    (handled = "header" /\ MalformedHeader(line)) =>
        (pc = "thrown" /\ err.where = "parseHeaderLine")

\* An 8-character zero-padded YYYYMMDD string of a date within the ranges
IsYYYYMMDD(s) ==
    /\ Len(s) = 8
    /\ \A i \in 1..8 : s[i] \in DigitSet
    /\ DigitsValue(SubSeq(s, 1, 4)) \in 1900..2100
    /\ DigitsValue(SubSeq(s, 5, 6)) \in 1..12
    /\ DigitsValue(SubSeq(s, 7, 8)) \in 1..31

\* C4: a stored date is the empty string or a valid YYYYMMDD encoding.
C4_DateEmptyOrEncoded ==
    \A s \in {cpt.filedate, cpt.startdate} : s = <<>> \/ IsYYYYMMDD(s)

\* C5: an ingested row appends to u its raw value at the declared
\* pore-pressure column (any 1-based column number, so any stored column
\* from 0 on), and 0.0 only when no pore-pressure column was declared.
C5_PorePressureFromDeclaredColumn ==
    (handled = "row" /\ pc = "scan") =>
        LET uColumn == ColumnOf(GEF_COLUMN_U)
        IN  /\ (uColumn.t = "num" /\ uColumn.v >= 0) => Last(cpt.u) = At(LastArgs, uColumn)
            /\ uColumn.t = "undefined" => Last(cpt.u) = Num(0)

\* C6: in every returned profile z, qc, fs, fr and u have the same length,
\* which is the number of non-blank data lines minus the rows dropped by a
\* void match minus the rows whose computed depth is NaN.
C6_EqualLengths ==
    pc = "returned" =>
        /\ Len(cpt.qc) = Len(cpt.z)
        /\ Len(cpt.fs) = Len(cpt.z)
        /\ Len(cpt.fr) = Len(cpt.z)
        /\ Len(cpt.u) = Len(cpt.z)
        /\ Len(cpt.z) = tally.nonBlank - tally.voided - tally.nanDepth

\* A profile was returned from a file with a void-dropped row, a NaN-depth
\* row and a surviving row.
C6_Witness ==
    /\ pc = "returned"
    /\ tally.voided > 0
    /\ tally.nanDepth > 0
    /\ Len(cpt.z) > 0

\* A header line that is a PROCEDURECODE or REPORTCODE record whose first
\* parameter contains "bore" in any letter case
IsBoreRecord(l) ==
    /\ Len(split(l, <<"=">>)) >= 2
    /\ KeywordOf(l) \in {PROCEDURECODE, REPORTCODE}
    /\ includes(toLowerCase(ParamsOf(l)[1]), toLowerCase(BORE))

\* C7: handling a borehole record in the header fails the parse with the
\* borehole error at that line: nothing was appended to z, qc, fs or u, no
\* data line was handled and postProcess did not run.
C7_BoreholeRejected ==
    (handled = "header" /\ IsBoreRecord(line)) =>
        /\ pc = "thrown"
        /\ err = [where |-> "parseHeaderLine", cause |-> "borehole"]
        /\ readingHeader
        /\ tally.nonBlank = 0
        /\ cpt.z = <<>> /\ cpt.qc = <<>> /\ cpt.fs = <<>> /\ cpt.u = <<>> /\ cpt.fr = <<>>

\* A lower-case borehole report code was rejected after another header line.
C7_Witness ==
    /\ handled = "header"
    /\ line = L_ReportBoreLower
    /\ n >= 2
    /\ pc = "thrown"

\* C8: fromString never returns a zero-length profile: whenever it returns,
\* some data row was neither blank, nor void-dropped, nor of NaN depth.
C8_NeverEmptyProfile ==
    pc = "returned" =>
        /\ Len(cpt.z) > 0
        /\ tally.nonBlank - tally.voided - tally.nanDepth > 0

\* The parse failed in postProcess on a file whose data rows all had a NaN
\* depth.
C8_Witness ==
    /\ pc = "thrown"
    /\ err.where = "postProcess"
    /\ tally.nanDepth > 0
    /\ tally.nanDepth = tally.nonBlank - tally.voided
    /\ cpt.z = <<>>

\* Declaration d drops the row of line l: the row's value at the 0-based
\* column d.column - 1 equals the sentinel
MatchesVoid(l, d) ==
    /\ d.column.t = "num"
    /\ StrictEq(At(RowArgs(l, metadata), Minus(d.column, Whole(1))), d.sentinel)

\* The declarations that are the last ones for their column
LastVoidDecls ==
    {voidDecls[i] : i \in {j \in 1..Len(voidDecls) :
        \A k \in (j + 1)..Len(voidDecls) : voidDecls[k].column # voidDecls[j].column}}

\* C9 as claimed: a row that matches any COLUMNVOID declaration seen in the
\* header appends nothing; so no appended row matches one.  Stated of the
\* rows whose depth is a number, which postProcess keeps in the profile.
C9_EveryDeclarationDrops ==
    (handled = "row" /\ pc = "scan" /\ ~isNaN(Last(cpt.z))) =>
        \A i \in 1..Len(voidDecls) : ~MatchesVoid(line, voidDecls[i])

\* A step that handles a data line matching the last COLUMNVOID declaration
\* of some column changes nothing of the object and raises no error
VoidStep ==
    (pc = "scan" /\ ~readingHeader /\ n' = n + 1
        /\ \E d \in LastVoidDecls : MatchesVoid(line', d))
    => (cpt' = cpt /\ pc' = "scan" /\ err' = NoError /\ handled' = "void")

\* C9 as amended: a data line that matches the last COLUMNVOID declaration
\* of some column appends to none of z, qc, fs, u and raises no error.
C9_LastDeclarationDrops == [][VoidStep]_vars

\* A row was dropped on the sentinel of a column that was declared twice.
C9_Witness ==
    /\ handled = "void"
    /\ \E i, j \in 1..Len(voidDecls) :
          /\ i < j
          /\ voidDecls[i].column = voidDecls[j].column
          /\ voidDecls[i].sentinel # voidDecls[j].sentinel
          /\ MatchesVoid(line, voidDecls[j])

\* The scalars parseHeaderLine sets, top elevation apart
HeaderScalars(c) ==
    <<c.x, c.y, c.name, c.filedate, c.startdate, c.preExcavatedDepth>>

\* A step taken once a data line has been handled leaves the metadata and
\* every header scalar alone (stated of the steps that do not throw, so that
\* the object it speaks of is one fromString returns)
FrozenStep ==
    (handled \in {"blank", "void", "row"} /\ pc' # "thrown") =>
        (metadata' = metadata /\ HeaderScalars(cpt') = HeaderScalars(cpt)
            /\ cpt'.top = cpt.top)

\* C10 as claimed: once a data line has been handled, the metadata and the
\* header scalars, top elevation included, never change.
C10_HeaderStateFrozen == [][FrozenStep]_vars

\* A line before the marker is handled as a header record and appends no row
HeaderModeStep ==
    (n' = n + 1 /\ readingHeader /\ ~includes(line', EOH)) =>
        (handled' = "header" /\ readingHeader'
            /\ cpt'.z = cpt.z /\ cpt'.qc = cpt.qc /\ cpt'.fs = cpt.fs /\ cpt'.u = cpt.u)

\* The first line holding the marker only leaves the header mode
MarkerStep ==
    (n' = n + 1 /\ readingHeader /\ includes(line', EOH)) =>
        (handled' = "marker" /\ ~readingHeader' /\ cpt' = cpt /\ metadata' = metadata)

\* A line after the marker is handled as a data row, whatever it holds
DataModeStep ==
    (n' = n + 1 /\ ~readingHeader) => handled' \in {"blank", "void", "row"}

\* After the marker the mode, the metadata and the header scalars stay; the
\* top elevation changes only when postProcess rounds it
AfterMarkerStep ==
    ~readingHeader =>
        (~readingHeader' /\ metadata' = metadata
            /\ HeaderScalars(cpt') = HeaderScalars(cpt)
            /\ (cpt'.top # cpt.top =>
                   (n' = n /\ pc' \in {"returned", "thrown"} /\ cpt'.top = Round2(cpt.top))))

\* C10 as amended: the scanner is a one-way two-mode machine, and after the
\* marker the metadata and the header scalars never change, except that
\* postProcess rounds the top elevation to two decimals.
C10_OneWayScanner ==
    [][HeaderModeStep /\ MarkerStep /\ DataModeStep /\ AfterMarkerStep]_vars

\* After the marker a keyword record, then a line holding the marker again,
\* were handled as data rows, and the top elevation set in the header still
\* has its third decimal.
C10_Witness ==
    /\ handled = "row"
    /\ line = L_Eoh
    /\ ~readingHeader
    /\ cpt.top = Num(5004000)
    /\ tally.nonBlank >= 2
    /\ cpt.name = <<>>
    /\ metadata.columnSeparator = <<" ">>

====
